---- MODULE Spec2Model ----
(***************************************************************************)
(* Model of nlp_architect/pipelines/spacy_bist/parser.py: the tag          *)
(* normaliser spacy_pos_to_ptb, the constructor of SpacyBISTParser with    *)
(* download_pretrained_model, and the pipeline to_conll -> predict_conll   *)
(* -> parse.  Python strings are TLA+ strings; a Python value whose type   *)
(* matters is a record with a "type" field.                                *)
(***************************************************************************)
EXTENDS Integers, Sequences, FiniteSets, TLC

\* ------------------------------------------------------------------ bounds
\* tokens the annotator returns for one document (all sentences together)
MaxToks == 2
\* sentences the annotator returns for one document
MaxSents == 2
\* constructions of SpacyBISTParser in one run
MaxConstructions == 3

VARIABLES
    pos, text, norm_pos,        \* spacy_pos_to_ptb: arguments and result
    files,                      \* the file system: set of paths that are files
    self,                       \* the SpacyBISTParser instance
    ctor,                       \* the latest construction: arguments, outcome
    n_constructed, downloads,   \* constructions / downloads so far
    args,                       \* arguments of the latest parse / to_conll call
    annotated,                  \* what spacy_annotator(doc_text).sents gave
    doc_conll,                  \* the sentences to_conll yielded
    predicted,                  \* what bist_parser.predict_conll returned
    parsed_sents,               \* parsed_sent at the end of each loop round
    invoked,                    \* collaborators invoked by the latest call
    ret                         \* result of the latest call

vars == <<pos, text, norm_pos, files, self, ctor, n_constructed, downloads,
          args, annotated, doc_conll, predicted, parsed_sents, invoked, ret>>

ptb_vars == <<pos, text, norm_pos>>
init_vars == <<files, ctor, n_constructed, downloads>>
call_vars == <<args, annotated, doc_conll, predicted, parsed_sents, invoked, ret>>

\* ------------------------------------------------- spacy_pos_to_ptb (152-167)
\* the text of two backquotes (a TLA+ string cannot hold a backquote)
OpenQuote == "<backquote><backquote>"


\* a variant that tests the tag rules before the text rules
spacy_pos_to_ptb_tag_first(p, t) ==
    IF p = "AFX" THEN "JJ"
    ELSE IF p = "ADD" THEN "NN"
    ELSE IF p \in {"NFP", "HYPH", "XX"} THEN "SYM"
    ELSE IF t = "..." THEN ":"
    ELSE IF t = "*" THEN "SYM"
    ELSE IF t # p /\ t \in {",", ".", ":", OpenQuote, "-RRB-", "-LRB-"} THEN t
    ELSE p

spacy_pos_to_ptb(p, t) ==
    IF t = "..." THEN ":"
    ELSE IF t = "*" THEN "SYM"
    ELSE IF p = "AFX" THEN "JJ"
    ELSE IF p = "ADD" THEN "NN"
    ELSE IF t # p /\ t \in {",", ".", ":", OpenQuote, "-RRB-", "-LRB-"} THEN t
    ELSE IF p \in {"NFP", "HYPH", "XX"} THEN "SYM"
    ELSE p

\* tags and surface texts the normaliser is applied to
PosTags == {"AFX", "ADD", "NFP", "HYPH", "XX", "NNP", "CC", ",", ".", ":",
            OpenQuote, "-RRB-", "-LRB-", ""}
Texts == {"...", "*", ",", ".", ":", OpenQuote, "-RRB-", "-LRB-", "-", "x", "dog",
          "AFX", "NFP", ""}

Unset == "<unset>"

\* ------------------------------------------------------- Python values
NoneVal == [type |-> "NoneType"]
Str(s) == [type |-> "str", val |-> s]
PathObj(s) == [type |-> "Path", val |-> s]
Bool(b) == [type |-> "bool", b |-> b]
PyInt(i) == [type |-> "int", i |-> i]

\* the truth value of v in `if v:`
Truthy(v) == (v.type = "bool" /\ v.b) \/ (v.type = "int" /\ v.i # 0)

\* `not v` for the values a model path takes
Falsy(v) == v.type = "NoneType" \/ (v.type = "str" /\ v.val = "")

\* ------------------------------------------------ constructor (39-52, 140-149)
\* SpacyBISTParser.pretrained
Pretrained == "bist-pretrained/bist.model"

\* path.isfile
isfile(p, fs) == p \in fs

\* outcomes of download_file + unzip_file
DownloadOutcomes == {"ok", "nofile", "raise"}

\* a variant that downloads without looking at the cache
download_always(fs, dl) ==
    [files |-> IF dl = "ok" THEN fs \cup {Pretrained} ELSE fs,
     downloaded |-> TRUE, raised |-> dl = "raise"]

download_pretrained_model(fs, dl) ==
    IF ~isfile(Pretrained, fs)
    THEN [files |-> IF dl = "ok" THEN fs \cup {Pretrained} ELSE fs,
          downloaded |-> TRUE, raised |-> dl = "raise"]
    ELSE [files |-> fs, downloaded |-> FALSE, raised |-> FALSE]

\* a variant that only looks at the annotator model
InitGuard_no_isfile(bist_model, spacy_model, fs) ==
    spacy_model.type = "str" \/ isfile(spacy_model.val, fs)

\* the condition of line 48
InitGuard(bist_model, spacy_model, fs) ==
    /\ isfile(bist_model, fs)
    /\ (spacy_model.type = "str" \/ isfile(spacy_model.val, fs))

FreshSelf == [attrs |-> {}, verbose |-> FALSE, bist_parser |-> Unset,
              spacy_annotator |-> Unset]

LoadedSelf(verbose) == [attrs |-> {"verbose", "bist_parser", "spacy_annotator"},
                        verbose |-> verbose, bist_parser |-> "custom.model",
                        spacy_annotator |-> "en"]

NoCtor == [verbose |-> FALSE, spacy_model |-> Str("en"), bist_model |-> NoneVal,
           cached |-> FALSE, downloaded |-> FALSE, isfile |-> "unreached",
           raised |-> FALSE]

BistModelArgs == {NoneVal, Str(""), Str("custom.model"), Str("missing.model")}
SpacyModelArgs == {Str("en"), PathObj("custom.model"), PathObj("missing.model")}

NoCall == [fn |-> "none"]
NoInvoked == [annotator |-> FALSE, model |-> FALSE]
NoRet == [kind |-> "none"]

\* SpacyBISTParser(verbose, spacy_model, bist_model); dl is what a download
\* does, spacy_ok whether spacy_load finds the annotator model
Construct(verbose, spacy_model, bist_model, dl, spacy_ok) ==
    /\ n_constructed < MaxConstructions
    /\ LET d == IF Falsy(bist_model)
                THEN download_pretrained_model(files, dl)
                ELSE [files |-> files, downloaded |-> FALSE, raised |-> FALSE]
           resolved == IF Falsy(bist_model) THEN Pretrained ELSE bist_model.val
           guard == InitGuard(resolved, spacy_model, d.files)
           load_raises == guard /\ ~spacy_ok
       IN /\ files' = d.files
          /\ downloads' = downloads + (IF d.downloaded THEN 1 ELSE 0)
          /\ self' = IF d.raised \/ ~guard THEN FreshSelf
                     ELSE IF spacy_ok
                     THEN [attrs |-> {"verbose", "bist_parser", "spacy_annotator"},
                           verbose |-> verbose, bist_parser |-> resolved,
                           spacy_annotator |-> spacy_model.val]
                     ELSE [attrs |-> {"verbose", "bist_parser"},
                           verbose |-> verbose, bist_parser |-> resolved,
                           spacy_annotator |-> Unset]
          /\ ctor' = [verbose |-> verbose, spacy_model |-> spacy_model,
                      bist_model |-> bist_model,
                      cached |-> isfile(Pretrained, files),
                      downloaded |-> d.downloaded,
                      isfile |-> IF d.raised THEN "unreached"
                                 ELSE IF isfile(resolved, d.files) THEN "True"
                                 ELSE "False",
                      raised |-> d.raised \/ (~d.raised /\ load_raises)]
    /\ n_constructed' = n_constructed + 1
    /\ UNCHANGED <<ptb_vars, call_vars>>

InitCtor ==
    /\ files \in {{"custom.model"}, {"custom.model", Pretrained}}
    /\ self = FreshSelf
    /\ ctor = NoCtor
    /\ n_constructed = 0
    /\ downloads = 0
    /\ pos = "" /\ text = "" /\ norm_pos = Unset
    /\ args = NoCall /\ annotated = <<>> /\ doc_conll = <<>>
    /\ predicted = <<>> /\ parsed_sents = <<>>
    /\ invoked = NoInvoked /\ ret = NoRet

NextCtor ==
    \E verbose \in BOOLEAN, spacy_model \in SpacyModelArgs,
       bist_model \in BistModelArgs, dl \in DownloadOutcomes,
       spacy_ok \in BOOLEAN :
        Construct(verbose, spacy_model, bist_model, dl, spacy_ok)

SpecCtor == InitCtor /\ [][NextCtor]_vars

\* ------------------------------------------------ spacy_pos_to_ptb as a step
Normalize ==
    /\ norm_pos = Unset
    /\ norm_pos' = spacy_pos_to_ptb(pos, text)
    /\ UNCHANGED <<pos, text, self, init_vars, call_vars>>

InitPtb ==
    /\ pos \in PosTags /\ text \in Texts /\ norm_pos = Unset
    /\ files = {} /\ self = FreshSelf /\ ctor = NoCtor
    /\ n_constructed = 0 /\ downloads = 0
    /\ args = NoCall /\ annotated = <<>> /\ doc_conll = <<>>
    /\ predicted = <<>> /\ parsed_sents = <<>>
    /\ invoked = NoInvoked /\ ret = NoRet

NextPtb == Normalize

SpecPtb == InitPtb /\ [][NextPtb]_vars

\* ------------------------------------------------------ the annotator's output
\* tokens of the annotator, without their character offset
Vocab ==
    { [text |-> "and", tag_ |-> "CC", lemma_ |-> "and", ent_type_ |-> "",
       is_space |-> FALSE],
      [text |-> "Or", tag_ |-> "CC", lemma_ |-> "or", ent_type_ |-> "",
       is_space |-> FALSE],
      [text |-> "Tom", tag_ |-> "NNP", lemma_ |-> "Tom", ent_type_ |-> "PERSON",
       is_space |-> FALSE],
      [text |-> "*root*", tag_ |-> "XX", lemma_ |-> "*root*", ent_type_ |-> "",
       is_space |-> FALSE],
      [text |-> " ", tag_ |-> "_SP", lemma_ |-> " ", ent_type_ |-> "",
       is_space |-> TRUE],
      [text |-> "-", tag_ |-> "HYPH", lemma_ |-> "-", ent_type_ |-> "",
       is_space |-> FALSE] }

\* non-empty sentences of at most n tokens
SentsUpTo(n) == UNION {[1..k -> Vocab] : k \in 1..n}

\* documents of at most k sentences and t tokens
RECURSIVE DocsOf(_, _)
DocsOf(k, t) ==
    IF k = 0 \/ t = 0 THEN {<<>>}
    ELSE {<<>>} \cup
         UNION { {<<s>> \o d : d \in DocsOf(k - 1, t - Len(s))} : s \in SentsUpTo(t) }

\* the document text the tokens of a sentence / a document come from
RECURSIVE SentText(_)
SentText(s) == IF s = <<>> THEN "" ELSE Head(s).text \o SentText(Tail(s))

RECURSIVE DocText(_)
DocText(doc) == IF doc = <<>> THEN "" ELSE SentText(Head(doc)) \o DocText(Tail(doc))

\* tok.idx: the character offset of each token in the document text
RECURSIVE SentWithIdx(_, _)
SentWithIdx(s, offset) ==
    IF s = <<>> THEN <<>>
    ELSE LET t == Head(s)
         IN <<[text |-> t.text, tag_ |-> t.tag_, lemma_ |-> t.lemma_,
               ent_type_ |-> t.ent_type_, is_space |-> t.is_space,
               idx |-> offset]>>
            \o SentWithIdx(Tail(s), offset + Len(t.text))

RECURSIVE DocWithIdx(_, _)
DocWithIdx(doc, offset) ==
    IF doc = <<>> THEN <<>>
    ELSE <<SentWithIdx(Head(doc), offset)>>
         \o DocWithIdx(Tail(doc), offset + Len(SentText(Head(doc))))

\* spacy_annotator(doc_text).sents for the document texts considered
Annotations == {DocWithIdx(d, 0) : d \in DocsOf(MaxSents, MaxToks)}

\* ------------------------------------------------------- to_conll (54-87)
\* ConllEntry(id, form, lemma, pos, cpos, feats, parent_id, relation, deps, misc)
ConllEntry(id, form, lemma, p, cpos, feats, parent_id, relation, deps, misc) ==
    [id |-> id, form |-> form, lemma |-> lemma, pos |-> p, cpos |-> cpos,
     feats |-> feats, parent_id |-> parent_id, relation |-> relation,
     deps |-> deps, misc |-> misc]

\* lines 65-66
RootEntry ==
    ConllEntry(0, "*root*", "*root*", "ROOT-POS", "ROOT-CPOS", "_", -1, "rroot",
               "_", "_")

\* lines 72 and 76: the tokens that go into the tabular sentence
KeepToken(tok) == ~tok.is_space /\ (tok.text # "-" \/ tok.tag_ # "HYPH")

\* a variant that numbers a token by its position in the annotator sentence
TokenConll_by_position(i_tok, k, tok) ==
    LET p == spacy_pos_to_ptb(tok.tag_, tok.text)
    IN ConllEntry(k, tok.text, tok.lemma_, p, p, tok.ent_type_, -1, "_", "_",
                  tok.idx)

\* lines 77-79; k is the position of tok in the annotator sentence
TokenConll(i_tok, k, tok) ==
    LET p == spacy_pos_to_ptb(tok.tag_, tok.text)
    IN ConllEntry(i_tok + 1, tok.text, tok.lemma_, p, p, tok.ent_type_, -1, "_",
                  "_", tok.idx)

\* the loop of lines 68-81 from token k on
RECURSIVE SentenceConll(_, _, _, _)
SentenceConll(sentence, k, sentence_conll, i_tok) ==
    IF k > Len(sentence) THEN sentence_conll
    ELSE IF KeepToken(sentence[k])
    THEN SentenceConll(sentence, k + 1,
                       Append(sentence_conll, TokenConll(i_tok, k, sentence[k])),
                       i_tok + 1)
    ELSE SentenceConll(sentence, k + 1, sentence_conll, i_tok)

\* the sentences to_conll yields for the annotator's sentences
ToConll(sents) ==
    [j \in 1..Len(sents) |-> SentenceConll(sents[j], 1, <<RootEntry>>, 0)]

\* ------------------------------------------- bist_parser.predict_conll
\* relation labels the parsing model predicts
Rels == {"conj", "nsubj"}

\* what the model may predict for the non-root entries of one sentence
SentPreds(s) ==
    [2..Len(s) -> [gov : 0..(Len(s) - 1), rel : Rels]]

\* ... and for the sentences of a document
RECURSIVE DocPreds(_)
DocPreds(doc) ==
    IF doc = <<>> THEN {<<>>}
    ELSE UNION { {<<o>> \o rest : rest \in DocPreds(Tail(doc))} :
                 o \in SentPreds(Head(doc)) }

Predicted(e, gov, rel) ==
    [id |-> e.id, form |-> e.form, lemma |-> e.lemma, pos |-> e.pos,
     cpos |-> e.cpos, feats |-> e.feats, parent_id |-> e.parent_id,
     relation |-> e.relation, deps |-> e.deps, misc |-> e.misc,
     pred_parent_id |-> gov, pred_relation |-> rel]

\* the same sentences, each entry augmented with the predicted governor
\* index and relation label
PredictConll(doc, oracle) ==
    [j \in 1..Len(doc) |->
        [k \in 1..Len(doc[j]) |->
            IF k = 1 THEN Predicted(doc[j][k], -1, "_")
            ELSE Predicted(doc[j][k], oracle[j][k].gov, oracle[j][k].rel)]]

\* ------------------------------------------------------- parse (89-137)
\* str.lower on the forms of the vocabulary
lower(form) ==
    CASE form = "Or" -> "or"
      [] form = "Tom" -> "tom"
      [] OTHER -> form

\* lines 116-119
AddConj(conj_governors, form, gov_id) ==
    [and |-> IF lower(form) = "and" THEN conj_governors.and \cup {gov_id}
             ELSE conj_governors.and,
     or |-> IF lower(form) = "or" THEN conj_governors.or \cup {gov_id}
            ELSE conj_governors.or]

\* a variant that looks the governor up in the wrong set
ConjRel_swapped(rel, gov_id, conj_governors) ==
    IF rel = "conj"
    THEN LET r1 == IF gov_id \in conj_governors.or THEN rel \o "_and" ELSE rel
         IN IF gov_id \in conj_governors.and THEN r1 \o "_or" ELSE r1
    ELSE rel

\* lines 121-125
ConjRel(rel, gov_id, conj_governors) ==
    IF rel = "conj"
    THEN LET r1 == IF gov_id \in conj_governors.and THEN rel \o "_and" ELSE rel
         IN IF gov_id \in conj_governors.or THEN r1 \o "_or" ELSE r1
    ELSE rel

\* a variant that emits the governor index as predicted
ParsedTok_gov_as_predicted(tok, gov_id, rel, show_tok) ==
    IF show_tok
    THEN [start |-> tok.misc, len |-> Len(tok.form), pos |-> tok.pos,
          ner |-> tok.feats, lemma |-> tok.lemma, gov |-> gov_id, rel |-> rel,
          text |-> tok.form]
    ELSE [start |-> tok.misc, len |-> Len(tok.form), pos |-> tok.pos,
          ner |-> tok.feats, lemma |-> tok.lemma, gov |-> gov_id, rel |-> rel]

\* lines 127-133
ParsedTok(tok, gov_id, rel, show_tok) ==
    IF show_tok
    THEN [start |-> tok.misc, len |-> Len(tok.form), pos |-> tok.pos,
          ner |-> tok.feats, lemma |-> tok.lemma, gov |-> gov_id - 1,
          rel |-> rel, text |-> tok.form]
    ELSE [start |-> tok.misc, len |-> Len(tok.form), pos |-> tok.pos,
          ner |-> tok.feats, lemma |-> tok.lemma, gov |-> gov_id - 1,
          rel |-> rel]

\* the loop of lines 111-134 from entry k on
RECURSIVE ScanSent(_, _, _, _, _)
ScanSent(sent_conll, k, parsed_sent, conj_governors, show_tok) ==
    IF k > Len(sent_conll) THEN parsed_sent
    ELSE LET tok == sent_conll[k]
             gov_id == tok.pred_parent_id
         IN IF tok.form # "*root*"
            THEN LET cg == AddConj(conj_governors, tok.form, gov_id)
                     rel == ConjRel(tok.pred_relation, gov_id, cg)
                 IN ScanSent(sent_conll, k + 1,
                             Append(parsed_sent,
                                    ParsedTok(tok, gov_id, rel, show_tok)),
                             cg, show_tok)
            ELSE ScanSent(sent_conll, k + 1, parsed_sent, conj_governors,
                          show_tok)

\* lines 108-134: parsed_sent for one predicted sentence
ParseSent(sent_conll, show_tok) ==
    ScanSent(sent_conll, 1, <<>>, [and |-> {}, or |-> {}], show_tok)

\* lines 135-136: only a non-empty parsed_sent is appended
AppendSents(sents) == SelectSeq(sents, LAMBDA ps : ps # <<>>)

\* a variant that only tests the document text
ValidArgs_doc_only(doc_text, show_tok, show_doc) == doc_text.type = "str"

\* the condition of line 100
ValidArgs(doc_text, show_tok, show_doc) ==
    /\ doc_text.type = "str"
    /\ show_tok.type = "bool"
    /\ show_doc.type = "bool"

NonStrArgs == {NoneVal, PyInt(5), [type |-> "bytes", val |-> "Tom"]}
ShowArgs == {Bool(TRUE), Bool(FALSE), PyInt(1), NoneVal}

\* whether a call with these arguments gets to run the pipeline
Runs(doc_text, show_tok, show_doc) ==
    /\ ValidArgs(doc_text, show_tok, show_doc)
    /\ {"bist_parser", "spacy_annotator"} \subseteq self.attrs

\* parse(doc_text, show_tok, show_doc); ann is what the annotator returns for
\* doc_text and oracle what the model predicts, when they are invoked
\* (a call reads self and never writes it, so every call starts from the
\* state the constructor left: one call is followed per behaviour)
Parse(doc_text, show_tok, show_doc, ann, oracle) ==
    /\ args = NoCall
    /\ args' = [fn |-> "parse", doc_text |-> doc_text, show_tok |-> show_tok,
                show_doc |-> show_doc]
    /\ IF ~ValidArgs(doc_text, show_tok, show_doc)
       THEN /\ ret' = [kind |-> "None"]
            /\ invoked' = NoInvoked
            /\ UNCHANGED <<annotated, doc_conll, predicted, parsed_sents>>
       ELSE IF "bist_parser" \notin self.attrs
       THEN /\ ret' = [kind |-> "raise", exc |-> "AttributeError"]
            /\ invoked' = NoInvoked
            /\ UNCHANGED <<annotated, doc_conll, predicted, parsed_sents>>
       ELSE LET conll == ToConll(ann)
                pred == PredictConll(conll, oracle)
                sents == [j \in 1..Len(pred) |-> ParseSent(pred[j], Truthy(show_tok))]
            IN /\ annotated' = ann
               /\ doc_conll' = conll
               /\ predicted' = pred
               /\ parsed_sents' = sents
               /\ invoked' = [annotator |-> TRUE, model |-> TRUE]
               /\ ret' = [kind |-> "CoreNLPDoc",
                          doc_text |-> IF Truthy(show_doc) THEN doc_text ELSE NoneVal,
                          sentences |-> AppendSents(sents)]
    /\ UNCHANGED <<ptb_vars, self, init_vars>>

\* list(to_conll(doc_text)): the generator run to its end
ToConllCall(doc_text, ann) ==
    /\ args = NoCall
    /\ args' = [fn |-> "to_conll", doc_text |-> doc_text]
    /\ IF doc_text.type # "str"
       THEN /\ ret' = [kind |-> "sentences"]
            /\ invoked' = NoInvoked
            /\ UNCHANGED <<annotated, doc_conll>>
       ELSE IF "spacy_annotator" \notin self.attrs
       THEN /\ ret' = [kind |-> "raise", exc |-> "AttributeError"]
            /\ invoked' = NoInvoked
            /\ UNCHANGED <<annotated, doc_conll>>
       ELSE /\ annotated' = ann
            /\ doc_conll' = ToConll(ann)
            /\ invoked' = [annotator |-> TRUE, model |-> FALSE]
            /\ ret' = [kind |-> "sentences"]
    /\ UNCHANGED <<ptb_vars, self, init_vars, predicted, parsed_sents>>

Init ==
    /\ self \in {LoadedSelf(FALSE), FreshSelf}
    /\ files = {"custom.model"} /\ ctor = NoCtor
    /\ n_constructed = 0 /\ downloads = 0
    /\ pos = "" /\ text = "" /\ norm_pos = Unset
    /\ args = NoCall /\ annotated = <<>> /\ doc_conll = <<>>
    /\ predicted = <<>> /\ parsed_sents = <<>>
    /\ invoked = NoInvoked /\ ret = NoRet

NextParse ==
    /\ args = NoCall
    /\ \E show_tok \in ShowArgs, show_doc \in ShowArgs :
        \/ \E doc_text \in NonStrArgs :
               Parse(doc_text, show_tok, show_doc, <<>>, <<>>)
        \/ \E ann \in Annotations :
               IF Runs(Str(DocText(ann)), show_tok, show_doc)
               THEN \E oracle \in DocPreds(ToConll(ann)) :
                        Parse(Str(DocText(ann)), show_tok, show_doc, ann, oracle)
               ELSE Parse(Str(DocText(ann)), show_tok, show_doc, <<>>, <<>>)

NextToConll ==
    /\ args = NoCall
    /\ \/ \E doc_text \in NonStrArgs : ToConllCall(doc_text, <<>>)
       \/ \E ann \in Annotations : ToConllCall(Str(DocText(ann)), ann)

Next == NextParse \/ NextToConll

Spec == Init /\ [][Next]_vars

\* ===================================================================
\* Properties
\* ===================================================================

Punct == {",", ".", ":", OpenQuote, "-RRB-", "-LRB-"}

\* C1: spacy_pos_to_ptb returns the result of the first matching rule, in
\* the order: text "..." gives ":"; text "*" gives "SYM"; tag "AFX" gives
\* "JJ"; tag "ADD" gives "NN"; text different from the tag and one of the six
\* punctuation texts gives the text; tag NFP, HYPH or XX gives "SYM";
\* otherwise the tag is returned unchanged.
C1_FirstMatchingRule ==
    norm_pos # Unset =>
        LET r1 == text = "..."
            r2 == text = "*"
            r3 == pos = "AFX"
            r4 == pos = "ADD"
            r5 == text # pos /\ text \in Punct
            r6 == pos \in {"NFP", "HYPH", "XX"}
        IN /\ r1 => norm_pos = ":"
           /\ ~r1 /\ r2 => norm_pos = "SYM"
           /\ ~r1 /\ ~r2 /\ r3 => norm_pos = "JJ"
           /\ ~r1 /\ ~r2 /\ ~r3 /\ r4 => norm_pos = "NN"
           /\ ~r1 /\ ~r2 /\ ~r3 /\ ~r4 /\ r5 => norm_pos = text
           /\ ~r1 /\ ~r2 /\ ~r3 /\ ~r4 /\ ~r5 /\ r6 => norm_pos = "SYM"
           /\ ~r1 /\ ~r2 /\ ~r3 /\ ~r4 /\ ~r5 /\ ~r6 => norm_pos = pos

\* a text rule has beaten a tag rule: ("AFX", "...") gave ":"
C1_Witness == pos = "AFX" /\ text = "..." /\ norm_pos = ":"

\* C7: a construction downloads only when it is given no model path and the
\* artifact is not in the cache; once the artifact is in the cache it stays
\* there and no construction downloads again.
C7_DownloadOnlyWhenAbsent ==
    [][ /\ downloads' # downloads =>
             /\ Falsy(ctor'.bist_model)
             /\ Pretrained \notin files
             /\ downloads' = downloads + 1
        /\ Pretrained \in files =>
             /\ downloads' = downloads
             /\ Pretrained \in files' ]_vars

\* one download put the artifact in place and a later construction without a
\* model path found it there and did not download
C7_Witness ==
    /\ downloads = 1 /\ n_constructed >= 2
    /\ Falsy(ctor.bist_model) /\ ctor.cached /\ ~ctor.downloaded

\* C9: when the model file the constructor looks for does not exist,
\* construction raises nothing and sets none of verbose, bist_parser and
\* spacy_annotator on the instance.
C9_MissingModelSkipsInit ==
    ctor.isfile = "False" => ~ctor.raised /\ self.attrs = {}

\* a construction was given the path of a file that does not exist
C9_Witness ==
    /\ n_constructed > 0
    /\ ctor.bist_model = Str("missing.model")
    /\ ctor.isfile = "False" /\ self.attrs = {}

\* ---- the pipeline: what a call of parse returned, against what it was given
ParseReturnedDoc == args.fn = "parse" /\ ret.kind = "CoreNLPDoc"

\* the emitted tokens: <<s, e>> is entry e of sentence s of the document
Emitted ==
    {se \in (1..MaxSents) \X (1..MaxToks) :
        /\ se[1] <= Len(ret.sentences)
        /\ se[2] <= Len(ret.sentences[se[1]])}

\* the non-root tabular tokens: <<j, k>> is entry k >= 2 of predicted sentence j
NonRoot ==
    {jk \in (1..MaxSents) \X (2..(MaxToks + 1)) :
        /\ jk[1] <= Len(predicted)
        /\ jk[2] <= Len(predicted[jk[1]])}

\* the tabular tokens an emitted token comes from: those at its offset
SourceOf(se) ==
    {jk \in NonRoot :
        predicted[jk[1]][jk[2]].misc = ret.sentences[se[1]][se[2]].start}

\* a non-root token at a position <= k of sentence j with this lowercased
\* form and this predicted governor
ConjSeen(j, k, word, g) ==
    \E i \in 2..k : /\ lower(predicted[j][i].form) = word
                    /\ predicted[j][i].pred_parent_id = g

\* the label the conjunction rule gives token k of sentence j
ExpectedRel(j, k) ==
    LET tok == predicted[j][k]
        g == tok.pred_parent_id
    IN IF tok.pred_relation = "conj"
       THEN "conj" \o (IF ConjSeen(j, k, "and", g) THEN "_and" ELSE "")
                   \o (IF ConjSeen(j, k, "or", g) THEN "_or" ELSE "")
       ELSE tok.pred_relation

\* C5: every emitted token has gov = its predicted governor index - 1 (-1 for
\* a token governed by the root, k - 1 for one governed by tabular token k).
C5_GovIsPredictedMinusOne ==
    ParseReturnedDoc =>
        \A se \in Emitted :
            /\ SourceOf(se) # {}
            /\ \A jk \in SourceOf(se) :
                   ret.sentences[se[1]][se[2]].gov
                       = predicted[jk[1]][jk[2]].pred_parent_id - 1

\* a token governed by the root was emitted with gov -1 and a token governed
\* by tabular token 2 with gov 1
C5_Witness ==
    /\ ParseReturnedDoc
    /\ \E se \in Emitted : \E jk \in SourceOf(se) :
           /\ predicted[jk[1]][jk[2]].pred_parent_id = 0
           /\ ret.sentences[se[1]][se[2]].gov = -1
    /\ \E se \in Emitted : \E jk \in SourceOf(se) :
           /\ predicted[jk[1]][jk[2]].pred_parent_id = 2
           /\ ret.sentences[se[1]][se[2]].gov = 1

\* C2: every non-root token is emitted, with the label "conj" + "_and" iff an
\* "and" with the same governor stands at or before it + "_or" iff an "or"
\* with the same governor stands at or before it when its predicted relation
\* is "conj", and with its predicted relation unchanged otherwise.
C2_ConjLabels ==
    ParseReturnedDoc =>
        \A jk \in NonRoot :
            \E e \in 1..Len(parsed_sents[jk[1]]) :
                /\ parsed_sents[jk[1]][e].start = predicted[jk[1]][jk[2]].misc
                /\ parsed_sents[jk[1]][e].rel = ExpectedRel(jk[1], jk[2])

\* the same rule, for the tokens parse emits
ConjLabelsOfEmitted ==
    ParseReturnedDoc =>
        \A se \in Emitted :
            /\ SourceOf(se) # {}
            /\ \A jk \in SourceOf(se) :
                   ret.sentences[se[1]][se[2]].rel = ExpectedRel(jk[1], jk[2])

\* the relation labels that "_and" or "_or" may be appended to
Stems == {"conj", "conj_and", "conj_or", "nsubj"}
EndsWith(rel, suffix) == \E stem \in Stems : rel = stem \o suffix

\* C3 as stated: whenever an "and" token and a "conj" dependent have the same
\* predicted governor, the relation emitted for the dependent ends with "_and".
C3_AnyAndSameGovernor ==
    ParseReturnedDoc =>
        \A se \in Emitted : \A jk \in SourceOf(se) :
            LET j == jk[1]
                d == predicted[j][jk[2]]
            IN (/\ d.pred_relation = "conj"
                /\ \E a \in 2..Len(predicted[j]) :
                       /\ predicted[j][a].form = "and"
                       /\ predicted[j][a].pred_parent_id = d.pred_parent_id)
               => EndsWith(ret.sentences[se[1]][se[2]].rel, "_and")

\* C3 amended: an emitted token with predicted relation "conj" whose governor
\* is also the predicted governor of an "and" token at or before it is emitted
\* with "conj_and" or "conj_and_or".
C3_AndAtOrBefore ==
    ParseReturnedDoc =>
        \A se \in Emitted : \A jk \in SourceOf(se) :
            LET j == jk[1]
                d == predicted[j][jk[2]]
            IN (/\ d.pred_relation = "conj"
                /\ \E a \in 2..jk[2] :
                       /\ predicted[j][a].form = "and"
                       /\ predicted[j][a].pred_parent_id = d.pred_parent_id)
               => ret.sentences[se[1]][se[2]].rel \in {"conj_and", "conj_and_or"}

\* "and" governed by g came before "Tom", a conj dependent of g, and "Tom"
\* was emitted with "conj_and"
C3_Witness ==
    /\ ParseReturnedDoc
    /\ \E se \in Emitted : \E jk \in SourceOf(se) :
           /\ jk[2] = 3
           /\ predicted[jk[1]][2].form = "and"
           /\ predicted[jk[1]][3].form = "Tom"
           /\ predicted[jk[1]][3].pred_relation = "conj"
           /\ predicted[jk[1]][2].pred_parent_id = predicted[jk[1]][3].pred_parent_id
           /\ ret.sentences[se[1]][se[2]].rel = "conj_and"

\* the tokens of an annotator sentence that to_conll does not drop
Surviving(sentence) ==
    {k \in 1..Len(sentence) :
        /\ ~sentence[k].is_space
        /\ ~(sentence[k].text = "-" /\ sentence[k].tag_ = "HYPH")}

\* the annotator sentences with a surviving token, and the n-th of them
SurvivingSents == {j \in 1..Len(annotated) : Surviving(annotated[j]) # {}}
NthSurviving(n) ==
    CHOOSE j \in SurvivingSents :
        Cardinality({i \in SurvivingSents : i <= j}) = n

\* C4: the returned document has no empty sentence; an annotator sentence
\* whose tokens are all dropped contributes no entry, every other sentence
\* exactly one, in the annotator's order.
C4_OneEntryPerSurvivingSentence ==
    ParseReturnedDoc =>
        /\ \A s \in 1..Len(ret.sentences) : ret.sentences[s] # <<>>
        /\ Len(ret.sentences) = Cardinality(SurvivingSents)
        /\ \A s \in 1..Len(ret.sentences) :
               \A e \in 1..Len(ret.sentences[s]) :
                   \E k \in Surviving(annotated[NthSurviving(s)]) :
                       annotated[NthSurviving(s)][k].idx
                           = ret.sentences[s][e].start

\* C6: the tokens emitted for a sentence are its non-root tabular tokens, one
\* to one and in order: entry k carries the start, pos, ner and lemma of the
\* tabular token with index k + 1 (0-based k), so that a gov >= 0 is the
\* position of the governor in the output sentence.
C6_OneToOneWithTabular ==
    ParseReturnedDoc =>
        \A j \in 1..Len(predicted) :
            /\ Len(parsed_sents[j]) = Len(predicted[j]) - 1
            /\ \A e \in 1..Len(parsed_sents[j]) :
                   LET tok == predicted[j][e + 1]
                       out == parsed_sents[j][e]
                   IN /\ out.start = tok.misc /\ out.pos = tok.pos
                      /\ out.ner = tok.feats /\ out.lemma = tok.lemma

\* C8: a call of parse with a doc_text that is no string, or a show_tok or
\* show_doc that is no boolean, returns None, raises nothing, invokes neither
\* the annotator nor the model and leaves the instance as it was.
C8_InvalidArgsReturnNone ==
    [][ (/\ args' # args
         /\ args'.fn = "parse"
         /\ \/ args'.doc_text.type # "str"
            \/ args'.show_tok.type # "bool"
            \/ args'.show_doc.type # "bool")
        => /\ ret'.kind = "None"
           /\ invoked' = [annotator |-> FALSE, model |-> FALSE]
           /\ self' = self
           /\ UNCHANGED <<annotated, doc_conll, predicted, parsed_sents>> ]_vars

\* a loaded parser was called with a text and show_tok = 1 and returned None
C8_Witness ==
    /\ args.fn = "parse" /\ args.doc_text.type = "str"
    /\ args.show_tok = PyInt(1) /\ args.show_doc = Bool(TRUE)
    /\ "bist_parser" \in self.attrs
    /\ ret.kind = "None" /\ ~invoked.annotator /\ ~invoked.model

\* C10: to_conll yields one tabular sentence per annotator sentence, in
\* order; each starts with the root entry (index 0, form "*root*", governor
\* -1), followed by the tokens that are neither whitespace nor ("-", "HYPH"),
\* in order, numbered 1..n without gaps, each with governor -1 and both tag
\* fields equal to spacy_pos_to_ptb(tag, text).
C10_ToConllSentences ==
    invoked.annotator =>
        /\ Len(doc_conll) = Len(annotated)
        /\ \A j \in 1..Len(annotated) :
               LET s == doc_conll[j]
                   kept == Surviving(annotated[j])
               IN /\ Len(s) = 1 + Cardinality(kept)
                  /\ s[1].id = 0 /\ s[1].form = "*root*" /\ s[1].parent_id = -1
                  /\ \A k \in kept :
                         LET n == Cardinality({i \in kept : i <= k})
                             tok == annotated[j][k]
                         IN /\ s[n + 1].id = n
                            /\ s[n + 1].form = tok.text
                            /\ s[n + 1].misc = tok.idx
                            /\ s[n + 1].parent_id = -1
                            /\ s[n + 1].pos = spacy_pos_to_ptb(tok.tag_, tok.text)
                            /\ s[n + 1].cpos = s[n + 1].pos

\* a sentence whose first token, a space, was dropped and whose second token
\* is numbered 1, with its tag XX normalised to SYM
C10_Witness ==
    /\ args.fn = "to_conll" /\ invoked.annotator
    /\ Len(annotated) = 1 /\ Len(annotated[1]) = 2
    /\ annotated[1][1].is_space /\ annotated[1][2].tag_ = "XX"
    /\ Len(doc_conll[1]) = 2
    /\ doc_conll[1][2].id = 1 /\ doc_conll[1][2].pos = "SYM"
====
